---- MODULE Spec2Model ----
(***************************************************************************)
(* Model of KaguyaRs' macro layer (src/basic_fn/mac.rs): the currying      *)
(* macros, pipe!/compose!, the ls! list comprehension and the variadic     *)
(* sum!/product! shortcuts.  A macro invocation is modelled by the rule of *)
(* macro_rules! that matches its argument list and by the expression that  *)
(* rule expands to; running the expanded expression is modelled by the     *)
(* actions below.                                                          *)
(***************************************************************************)
EXTENDS Integers, Sequences, FiniteSets, TLC

VARIABLES
    kind,       \* pipe!/compose!: which macro built the current pipeline
    args,       \* pipe!/compose!: the transformers as listed by the caller
    pl,         \* the outcome of the expansion: [st, body]
    built,      \* the closure body as it was when the expansion finished
    ev,         \* the running / finished call of the pipeline closure;
                \* again: its input was passed to an earlier call
    hist,       \* finished calls of the current pipeline: <<input, outcome>>
    cform,      \* currying macros: the macro form the caller invoked
    given,      \* currying macros: the arguments the caller has supplied so far
    cl,         \* currying macros: the closure the macro expanded to
    cres,       \* currying macros: [done, val] of the closure's call
    lsq,        \* ls!: the invocation [form, mapper, filterer] as written
    lsx,        \* ls!: the expanded full form [mapper, it, filterer]
    lsrun,      \* ls!: the loop [pc, pos, ret]
    lscnt,      \* ls!: per element of the source [ext, pred, map] call counts
    sq,         \* sum!/product!: [op, xs] the invocation
    sres        \* sum!/product!: [done, val, ovf] of the expanded expression

pvars == <<kind, args, pl, built, ev, hist>>
cvars == <<cform, given, cl, cres>>
lvars == <<lsq, lsx, lsrun, lscnt>>
svars == <<sq, sres>>
vars == <<kind, args, pl, built, ev, hist, cform, given, cl, cres,
          lsq, lsx, lsrun, lscnt, sq, sres>>

(***************************************************************************)
(* Bounds of the model.                                                    *)
(***************************************************************************)
MaxStages == 3      \* longest transformer list handed to pipe!/compose!
MaxLen == 3         \* longest sequence handed to a curried transformer / ls!
MaxOperands == 3    \* longest operand list handed to sum!/product!

Min(a, b) == IF a < b THEN a ELSE b

Front(s) == SubSeq(s, 1, Len(s) - 1)

Last(s) == s[Len(s)]

SeqsUpTo(S, n) == UNION {[1..k -> S] : k \in 0..n}

(***************************************************************************)
(* Functions and closures the caller passes to the macros.                 *)
(***************************************************************************)
Mappers == {"id", "inc", "sq"}

Predicates == {"true", "even", "neg"}

Combiners == {"add", "sub"}

CallFn(f, x) ==
    CASE f = "id" -> x
      [] f = "inc" -> x + 1
      [] f = "sq" -> x * x

CallPred(p, x) ==
    CASE p = "true" -> TRUE
      [] p = "even" -> x % 2 = 0
      [] p = "neg" -> x < 0

Call2(f, a, b) ==
    CASE f = "add" -> a + b
      [] f = "sub" -> a - b

Ok(v) == [ok |-> TRUE, val |-> v, err |-> "none"]

Panic(e) == [ok |-> FALSE, val |-> <<>>, err |-> e]

(***************************************************************************)
(* The base operations of basic_fn::fun the macros call.                   *)
(***************************************************************************)
map(f, it) == [i \in 1..Len(it) |-> CallFn(f, it[i])]

filter(p, it) == SelectSeq(it, LAMBDA x : CallPred(p, x))

filter_not(p, it) == SelectSeq(it, LAMBDA x : ~CallPred(p, x))

skip(n, it) == SubSeq(it, n + 1, Len(it))

take(n, it) == SubSeq(it, 1, Min(n, Len(it)))

RECURSIVE foldl(_, _, _)
foldl(init, f, it) ==
    IF it = <<>> THEN init
    ELSE foldl(Call2(f, init, Head(it)), f, Tail(it))

RECURSIVE foldr(_, _, _)
foldr(init, f, it) ==
    IF it = <<>> THEN init
    ELSE foldr(Call2(f, Last(it), init), f, Front(it))

(***************************************************************************)
(* The currying macros.  A closure is the record of what it captured       *)
(* (f, init, n), the base operation its body calls (op) and the arguments  *)
(* it still awaits: "it" for `move |it| ..`, "f_it" for `move |f,it| ..`,  *)
(* "f" for `move |f| (move |it| ..)`.                                      *)
(***************************************************************************)
Closure(op, f, init, n, await) ==
    [op |-> op, f |-> f, init |-> init, n |-> n, await |-> await]

NoClosure == Closure("none", "-", 0, 0, "-")

map_mac(f) == Closure("map", f, 0, 0, "it")

filter_mac(f) == Closure("filter", f, 0, 0, "it")

filter_not_mac(f) == Closure("filter_not", f, 0, 0, "it")

skip_mac(n) == Closure("skip", "-", 0, n, "it")

\* Variant of take_mac: the closure body calls skip.
take_mac_skip(n) == Closure("skip", "-", 0, n, "it")

take_mac(n) == Closure("take", "-", 0, n, "it")

foldl_init_f(init, f) == Closure("foldl", f, init, 0, "it")

foldl_init(init) == Closure("foldl", "-", init, 0, "f_it")

foldl_init_arrow(init) == Closure("foldl", "-", init, 0, "f")

\* Variant of foldr_init_f: the closure body calls foldl.
foldr_init_f_as_foldl(init, f) == Closure("foldl", f, init, 0, "it")

foldr_init_f(init, f) == Closure("foldr", f, init, 0, "it")

foldr_init(init) == Closure("foldr", "-", init, 0, "f_it")

foldr_init_arrow(init) == Closure("foldr", "-", init, 0, "f")

\* The body of a closure awaiting its sequence: the base operation on the
\* captured arguments, then the sequence.
CallClosure(c, it) ==
    CASE c.op = "map" -> map(c.f, it)
      [] c.op = "filter" -> filter(c.f, it)
      [] c.op = "filter_not" -> filter_not(c.f, it)
      [] c.op = "skip" -> skip(c.n, it)
      [] c.op = "take" -> take(c.n, it)
      [] c.op = "foldl" -> foldl(c.init, c.f, it)
      [] c.op = "foldr" -> foldr(c.init, c.f, it)

\* `move |f,it| fold($init,f,it)`
CallClosureFIt(c, f, it) == CallClosure([c EXCEPT !.f = f], it)

\* `move |f| (move |it| fold($init,f,it))`: the inner closure
CallClosureF(c, f) == [c EXCEPT !.f = f, !.await = "it"]

Elems == 1..3

Inits == {0, 10}

Counts == 0..(MaxLen + 1)

NoGiven == [init |-> 0, f |-> "-", n |-> 0, it |-> <<>>]

CurryIdle ==
    /\ cform = "none"
    /\ given = NoGiven
    /\ cl = NoClosure
    /\ cres = [done |-> FALSE, val |-> 0]

\* The macro invocation is expanded where the caller wrote it: once.
Curried(form, g, c) ==
    /\ cform = "none"
    /\ cform' = form
    /\ given' = g
    /\ cl' = c
    /\ cres' = [done |-> FALSE, val |-> 0]
    /\ UNCHANGED <<pvars, lvars, svars>>

MapMac(f) == Curried("map", [NoGiven EXCEPT !.f = f], map_mac(f))

FilterMac(f) == Curried("filter", [NoGiven EXCEPT !.f = f], filter_mac(f))

FilterNotMac(f) ==
    Curried("filter_not", [NoGiven EXCEPT !.f = f], filter_not_mac(f))

SkipMac(n) == Curried("skip", [NoGiven EXCEPT !.n = n], skip_mac(n))

TakeMac(n) == Curried("take", [NoGiven EXCEPT !.n = n], take_mac(n))

FoldlInitF(init, f) ==
    Curried("foldl_init_f", [NoGiven EXCEPT !.init = init, !.f = f],
            foldl_init_f(init, f))

FoldlInit(init) ==
    Curried("foldl_init", [NoGiven EXCEPT !.init = init], foldl_init(init))

FoldlInitArrow(init) ==
    Curried("foldl_init_arrow", [NoGiven EXCEPT !.init = init],
            foldl_init_arrow(init))

FoldrInitF(init, f) ==
    Curried("foldr_init_f", [NoGiven EXCEPT !.init = init, !.f = f],
            foldr_init_f(init, f))

FoldrInit(init) ==
    Curried("foldr_init", [NoGiven EXCEPT !.init = init], foldr_init(init))

FoldrInitArrow(init) ==
    Curried("foldr_init_arrow", [NoGiven EXCEPT !.init = init],
            foldr_init_arrow(init))

\* The caller calls a closure that awaits only the sequence.
ApplyIt(it) ==
    /\ cl.await = "it"
    /\ given' = [given EXCEPT !.it = it]
    /\ cres' = [done |-> TRUE, val |-> CallClosure(cl, it)]
    /\ UNCHANGED <<cform, cl, pvars, lvars, svars>>

\* The caller calls a closure that awaits the combiner and the sequence.
ApplyFIt(f, it) ==
    /\ cl.await = "f_it"
    /\ given' = [given EXCEPT !.f = f, !.it = it]
    /\ cres' = [done |-> TRUE, val |-> CallClosureFIt(cl, f, it)]
    /\ UNCHANGED <<cform, cl, pvars, lvars, svars>>

\* The caller calls a closure that awaits the combiner, then the sequence.
ApplyF(f) ==
    /\ cl.await = "f"
    /\ given' = [given EXCEPT !.f = f]
    /\ cl' = CallClosureF(cl, f)
    /\ UNCHANGED <<cform, cres, pvars, lvars, svars>>

NextCurry ==
    \/ \E f \in Mappers : MapMac(f)
    \/ \E f \in Predicates : FilterMac(f)
    \/ \E f \in Predicates : FilterNotMac(f)
    \/ \E n \in Counts : SkipMac(n)
    \/ \E n \in Counts : TakeMac(n)
    \/ \E init \in Inits, f \in Combiners : FoldlInitF(init, f)
    \/ \E init \in Inits : FoldlInit(init)
    \/ \E init \in Inits : FoldlInitArrow(init)
    \/ \E init \in Inits, f \in Combiners : FoldrInitF(init, f)
    \/ \E init \in Inits : FoldrInit(init)
    \/ \E init \in Inits : FoldrInitArrow(init)
    \/ \E it \in SeqsUpTo(Elems, MaxLen) : ApplyIt(it)
    \/ \E f \in Combiners, it \in SeqsUpTo(Elems, MaxLen) : ApplyFIt(f, it)
    \/ \E f \in Combiners : ApplyF(f)

(***************************************************************************)
(* pipe! and compose!.  An expression built of nested unary calls,         *)
(* fn(..f2(f1(v))), is the sequence <<f1, f2, .., fn>> of its callees,     *)
(* innermost first; <<>> is the bare `v`.  An expansion is [ok, body]: ok  *)
(* is FALSE when no rule of the macro matches (the build fails).           *)
(***************************************************************************)
Expanded(body) == [ok |-> TRUE, body |-> body]

NoRule == [ok |-> FALSE, body |-> <<>>]

\* Variant of pipe_NEXT: each later transformer is nested inside the
\* expression built so far.
pipe_NEXT_outermost_first(v, fs) ==
    IF Len(fs) = 0 THEN NoRule
    ELSE Expanded([i \in 1..Len(fs) |-> fs[Len(fs) + 1 - i]] \o v)

\* The @NEXT rules of pipe!: `$f($v)` wraps the expression built so far.
RECURSIVE pipe_NEXT(_, _)
pipe_NEXT(v, fs) ==
    IF Len(fs) >= 2 THEN pipe_NEXT(Append(v, Head(fs)), Tail(fs))
    ELSE IF Len(fs) = 1 THEN Expanded(Append(v, Head(fs)))
    ELSE NoRule

\* Variant of pipe: an empty list expands to the closure `|v| v`.
pipe_empty_is_identity(fs) ==
    IF Len(fs) = 0 THEN Expanded(<<>>) ELSE pipe_NEXT(<<>>, fs)

\* pipe!'s first rule: `|v| {pipe!(@NEXT v, $($f),*) }`, the body expanded
\* with the closure.
pipe(fs) == pipe_NEXT(<<>>, fs)

\* The @NEXT rules of compose!: the listed transformers are moved, one at a
\* time, to the front of the bracketed list, which is then handed to pipe!.
RECURSIVE compose_NEXT(_, _)
compose_NEXT(fs, remain) ==
    IF Len(remain) >= 2
    THEN compose_NEXT(<<Head(remain)>> \o fs, Tail(remain))
    ELSE IF Len(remain) = 1 THEN pipe(<<Head(remain)>> \o fs)
    ELSE NoRule

\* compose!'s first rule needs `$f:expr,` and then the rest of the list.
compose(fs) ==
    IF Len(fs) >= 2 THEN compose_NEXT(<<Head(fs)>>, Tail(fs))
    ELSE NoRule

\* Closures written by the caller, which may panic.
CallerClosure(f, it) ==
    CASE f = "first" ->
            IF it = <<>> THEN Panic("unwrap on None") ELSE Ok(<<Head(it)>>)
      [] f = "checked" ->
            IF \E i \in 1..Len(it) : it[i] % 2 = 1
            THEN Panic("odd element") ELSE Ok(it)

\* One stage of a pipeline called on a value.
CallStage(st, x) ==
    IF st.op = "call" THEN CallerClosure(st.f, x) ELSE Ok(CallClosure(st, x))

Stages ==
    {map_mac("inc"), filter_mac("even"), skip_mac(1), take_mac(2),
     Closure("call", "first", 0, 0, "it"),
     Closure("call", "checked", 0, 0, "it")}

Inputs == {<<>>, <<1, 2, 3>>, <<2, 2>>}

EvIdle ==
    [pc |-> "idle", v |-> <<>>, cur |-> <<>>, idx |-> 0, invoked |-> <<>>,
     err |-> "none", again |-> FALSE]

PipeIdle ==
    /\ kind = "none"
    /\ args = <<>>
    /\ pl = [st |-> "none", body |-> <<>>]
    /\ built = <<>>
    /\ ev = EvIdle
    /\ hist = {}

\* The macro invocation is expanded where the caller wrote it: once.
Constructed(k, fs, e) ==
    /\ kind = "none"
    /\ kind' = k
    /\ args' = fs
    /\ pl' = [st |-> IF e.ok THEN "ok" ELSE "error", body |-> e.body]
    /\ built' = e.body
    /\ ev' = EvIdle
    /\ hist' = {}
    /\ UNCHANGED <<cvars, lvars, svars>>

\* The caller writes pipe!(fs).
ConstructPipe ==
    /\ kind = "none"
    /\ \E fs \in SeqsUpTo(Stages, MaxStages) :
          Constructed("pipe", fs, pipe(fs))

\* The caller writes compose!(fs).
ConstructCompose ==
    /\ kind = "none"
    /\ \E fs \in SeqsUpTo(Stages, MaxStages) :
          Constructed("compose", fs, compose(fs))

\* The caller calls the closure the macro expanded to.  The stage
\* expressions are part of the closure's body and are evaluated by every
\* call, outermost first, before the innermost stage is called; they are
\* values here (a curried closure with what it captured, or a closure of the
\* caller), so that evaluation has no effect of its own.
Invoke(v) ==
    /\ pl.st = "ok"
    /\ ev.pc # "running"
    /\ ev' = [pc |-> "running", v |-> v, cur |-> v, idx |-> 0,
              invoked |-> [i \in 1..Len(pl.body) |-> 0], err |-> "none",
              again |-> \E h \in hist : h[1] = v]
    /\ UNCHANGED <<kind, args, pl, built, hist, cvars, lvars, svars>>

\* Variant of Step: a stage's panic is swallowed and the value passed on.
Step_suppress ==
    /\ ev.pc = "running"
    /\ LET i == ev.idx + 1
           r == CallStage(pl.body[i], ev.cur)
           nxt == IF r.ok THEN r.val ELSE ev.cur
           inv == [ev.invoked EXCEPT ![i] = @ + 1]
       IN  IF i < Len(pl.body)
           THEN /\ ev' = [ev EXCEPT !.cur = nxt, !.idx = i, !.invoked = inv]
                /\ hist' = hist
           ELSE /\ ev' = [ev EXCEPT !.pc = "returned", !.cur = nxt,
                                    !.idx = i, !.invoked = inv]
                /\ hist' = hist \cup {<<ev.v, Ok(nxt)>>}
    /\ UNCHANGED <<kind, args, pl, built, cvars, lvars, svars>>

\* Variant of Step: a call changes the count a stage captured.
Step_stateful ==
    /\ ev.pc = "running"
    /\ LET i == ev.idx + 1
           r == CallStage(pl.body[i], ev.cur)
           inv == [ev.invoked EXCEPT ![i] = @ + 1]
       IN  /\ pl' = [pl EXCEPT !.body[i].n = (@ + 1) % 3]
           /\ IF ~r.ok
              THEN /\ ev' = [ev EXCEPT !.pc = "panicked", !.err = r.err,
                                       !.invoked = inv]
                   /\ hist' = hist \cup {<<ev.v, Panic(r.err)>>}
              ELSE IF i < Len(pl.body)
              THEN /\ ev' = [ev EXCEPT !.cur = r.val, !.idx = i,
                                       !.invoked = inv]
                   /\ hist' = hist
              ELSE /\ ev' = [ev EXCEPT !.pc = "returned", !.cur = r.val,
                                       !.idx = i, !.invoked = inv]
                   /\ hist' = hist \cup {<<ev.v, Ok(r.val)>>}
    /\ UNCHANGED <<kind, args, built, cvars, lvars, svars>>

\* The next call of the nested expression: the stage at position idx + 1 is
\* called on the value computed so far; a panic unwinds out of the closure.
Step ==
    /\ ev.pc = "running"
    /\ LET i == ev.idx + 1
           r == CallStage(pl.body[i], ev.cur)
           inv == [ev.invoked EXCEPT ![i] = @ + 1]
       IN  IF ~r.ok
           THEN /\ ev' = [ev EXCEPT !.pc = "panicked", !.err = r.err,
                                    !.invoked = inv]
                /\ hist' = hist \cup {<<ev.v, Panic(r.err)>>}
           ELSE IF i < Len(pl.body)
           THEN /\ ev' = [ev EXCEPT !.cur = r.val, !.idx = i, !.invoked = inv]
                /\ hist' = hist
           ELSE /\ ev' = [ev EXCEPT !.pc = "returned", !.cur = r.val,
                                    !.idx = i, !.invoked = inv]
                /\ hist' = hist \cup {<<ev.v, Ok(r.val)>>}
    /\ UNCHANGED <<kind, args, pl, built, cvars, lvars, svars>>

NextPipe ==
    \/ ConstructPipe
    \/ ConstructCompose
    \/ \E v \in Inputs : Invoke(v)
    \/ Step

(***************************************************************************)
(* ls!, the list comprehension.  The three short forms expand to the full  *)
(* form `$mapper;$it=>$filterer`, whose body is the for loop.              *)
(***************************************************************************)
ls_full(mapper, it, filterer) ==
    [mapper |-> mapper, it |-> it, filterer |-> filterer]

\* ($it) => ls![|x| x;$it=>|_|true]
ls_it(it) == ls_full("id", it, "true")

\* ($mapper;$it) => ls![$mapper;$it=>|_| true]
ls_mapper_it(mapper, it) == ls_full(mapper, it, "true")

\* ($it=>$filterer) => ls![|x| x;$it=>$filterer]
ls_it_filterer(it, filterer) == ls_full("id", it, filterer)

NoCount == [ext |-> 0, pred |-> 0, map |-> 0]

LsIdle ==
    /\ lsq = [form |-> "none", mapper |-> "-", it |-> <<>>, filterer |-> "-"]
    /\ lsx = ls_full("-", <<>>, "-")
    /\ lsrun = [pc |-> "idle", pos |-> 0, ret |-> <<>>]
    /\ lscnt = <<>>

\* The expanded block is entered: `let mut ret = Vec::new();`
LsEnter(form, mapper, it, filterer, x) ==
    /\ lsq.form = "none"
    /\ lsq' = [form |-> form, mapper |-> mapper, it |-> it,
               filterer |-> filterer]
    /\ lsx' = x
    /\ lsrun' = [pc |-> "loop", pos |-> 0, ret |-> <<>>]
    /\ lscnt' = [i \in 1..Len(it) |-> NoCount]
    /\ UNCHANGED <<pvars, cvars, svars>>

LsIt(it) == LsEnter("it", "-", it, "-", ls_it(it))

LsMapperIt(mapper, it) ==
    LsEnter("mapper;it", mapper, it, "-", ls_mapper_it(mapper, it))

LsItFilterer(it, filterer) ==
    LsEnter("it=>filterer", "-", it, filterer, ls_it_filterer(it, filterer))

LsFull(mapper, it, filterer) ==
    LsEnter("mapper;it=>filterer", mapper, it, filterer,
            ls_full(mapper, it, filterer))

\* Variant of LsIter: the filterer is asked about the mapped value.
LsIter_filter_mapped ==
    /\ lsrun.pc = "loop"
    /\ lsrun.pos < Len(lsx.it)
    /\ LET k == lsrun.pos + 1
           i == lsx.it[k]
           keep == CallPred(lsx.filterer, CallFn(lsx.mapper, i))
       IN  /\ lsrun' = [lsrun EXCEPT
                          !.pos = k,
                          !.ret = IF keep
                                  THEN Append(@, CallFn(lsx.mapper, i))
                                  ELSE @]
           /\ lscnt' = [lscnt EXCEPT
                          ![k] = [ext |-> @.ext + 1, pred |-> @.pred + 1,
                                  map |-> @.map + 1]]
    /\ UNCHANGED <<lsq, lsx, pvars, cvars, svars>>

\* Variant of LsIter: the mapper is called before the filterer is asked.
LsIter_map_first ==
    /\ lsrun.pc = "loop"
    /\ lsrun.pos < Len(lsx.it)
    /\ LET k == lsrun.pos + 1
           i == lsx.it[k]
           keep == CallPred(lsx.filterer, i)
       IN  /\ lsrun' = [lsrun EXCEPT
                          !.pos = k,
                          !.ret = IF keep
                                  THEN Append(@, CallFn(lsx.mapper, i))
                                  ELSE @]
           /\ lscnt' = [lscnt EXCEPT
                          ![k] = [ext |-> @.ext + 1, pred |-> @.pred + 1,
                                  map |-> @.map + 1]]
    /\ UNCHANGED <<lsq, lsx, pvars, cvars, svars>>

\* One iteration of `for i in $it`: the next element is taken from the
\* source, tested with $filterer and, if it passes, mapped and pushed.
LsIter ==
    /\ lsrun.pc = "loop"
    /\ lsrun.pos < Len(lsx.it)
    /\ LET k == lsrun.pos + 1
           i == lsx.it[k]
           keep == CallPred(lsx.filterer, i)
       IN  /\ lsrun' = [lsrun EXCEPT
                          !.pos = k,
                          !.ret = IF keep
                                  THEN Append(@, CallFn(lsx.mapper, i))
                                  ELSE @]
           /\ lscnt' = [lscnt EXCEPT
                          ![k] = [ext |-> @.ext + 1, pred |-> @.pred + 1,
                                  map |-> @.map + (IF keep THEN 1 ELSE 0)]]
    /\ UNCHANGED <<lsq, lsx, pvars, cvars, svars>>

\* The source is exhausted: the block evaluates to `ret`.
LsReturn ==
    /\ lsrun.pc = "loop"
    /\ lsrun.pos = Len(lsx.it)
    /\ lsrun' = [lsrun EXCEPT !.pc = "done"]
    /\ UNCHANGED <<lsq, lsx, lscnt, pvars, cvars, svars>>

NextLs ==
    \/ \E it \in SeqsUpTo(Elems, MaxLen) : LsIt(it)
    \/ \E m \in Mappers, it \in SeqsUpTo(Elems, MaxLen) : LsMapperIt(m, it)
    \/ \E it \in SeqsUpTo(Elems, MaxLen), p \in Predicates :
          LsItFilterer(it, p)
    \/ \E m \in Mappers, it \in SeqsUpTo(Elems, MaxLen), p \in Predicates :
          LsFull(m, it, p)
    \/ LsIter
    \/ LsReturn

(***************************************************************************)
(* sum! and product!, list form, over a signed integer type of Bits bits.  *)
(* An evaluation is [val, ovf]: the wrapped value and whether one of its   *)
(* operations left the type's range (a panic in a debug build).            *)
(***************************************************************************)
Bits == 8

IntMax == 2^(Bits - 1) - 1

IntMin == -(2^(Bits - 1))

Wrap(x) == ((x - IntMin) % 2^Bits) + IntMin

InRange(x) == IntMin <= x /\ x <= IntMax

Lit(x) == [val |-> x, ovf |-> FALSE]

\* `a + b` on evaluated operands
Plus(a, b) ==
    [val |-> Wrap(a.val + b.val),
     ovf |-> a.ovf \/ b.ovf \/ ~InRange(a.val + b.val)]

\* `a * b` on evaluated operands
Times(a, b) ==
    [val |-> Wrap(a.val * b.val),
     ovf |-> a.ovf \/ b.ovf \/ ~InRange(a.val * b.val)]

\* Variant of sum_mac: the operands are added to an accumulator, left to
\* right.
RECURSIVE sum_mac_accumulating(_)
sum_mac_accumulating(xs) ==
    IF Len(xs) >= 2
    THEN LET r == sum_mac_accumulating(Front(xs))
         IN  [ok |-> TRUE, e |-> Plus(r.e, Lit(Last(xs)))]
    ELSE IF Len(xs) = 1 THEN [ok |-> TRUE, e |-> Lit(Head(xs))]
    ELSE [ok |-> FALSE, e |-> Lit(0)]

\* sum!, rules 2 and 3: `$i + sum!($($j),*)` and `$i`
RECURSIVE sum_mac(_)
sum_mac(xs) ==
    IF Len(xs) >= 2
    THEN [ok |-> TRUE, e |-> Plus(Lit(Head(xs)), sum_mac(Tail(xs)).e)]
    ELSE IF Len(xs) = 1 THEN [ok |-> TRUE, e |-> Lit(Head(xs))]
    ELSE [ok |-> FALSE, e |-> Lit(0)]

\* product!, rules 2 and 3: `$i * product!($($j),*)` and `$i`
RECURSIVE product_mac(_)
product_mac(xs) ==
    IF Len(xs) >= 2
    THEN [ok |-> TRUE, e |-> Times(Lit(Head(xs)), product_mac(Tail(xs)).e)]
    ELSE IF Len(xs) = 1 THEN [ok |-> TRUE, e |-> Lit(Head(xs))]
    ELSE [ok |-> FALSE, e |-> Lit(0)]

Operands == {IntMin, -1, 0, 1, 2, IntMax \div 2 + 1, IntMax}

SumIdle ==
    /\ sq = [op |-> "none", xs |-> <<>>]
    /\ sres = [st |-> "none", val |-> 0, ovf |-> FALSE]

\* The macro invocation is expanded and evaluated where the caller wrote it.
Reduced(op, xs, r) ==
    /\ sq.op = "none"
    /\ sq' = [op |-> op, xs |-> xs]
    /\ sres' = [st |-> IF r.ok THEN "ok" ELSE "error", val |-> r.e.val,
                ovf |-> r.e.ovf]
    /\ UNCHANGED <<pvars, cvars, lvars>>

\* The caller writes sum!(x1, .., xn).
SumList(xs) == Reduced("sum", xs, sum_mac(xs))

\* The caller writes product!(x1, .., xn).
ProductList(xs) == Reduced("product", xs, product_mac(xs))

NextSum ==
    \/ \E xs \in SeqsUpTo(Operands, MaxOperands) : SumList(xs)
    \/ \E xs \in SeqsUpTo(Operands, MaxOperands) : ProductList(xs)

(***************************************************************************)
(* Specifications: one per part of the macro layer; nothing has been       *)
(* built or called yet.                                                    *)
(***************************************************************************)
Init == PipeIdle /\ CurryIdle /\ LsIdle /\ SumIdle

SpecPipe == Init /\ [][NextPipe]_vars

SpecCurry == Init /\ [][NextCurry]_vars

SpecLs == Init /\ [][NextLs]_vars

SpecSum == Init /\ [][NextSum]_vars

(***************************************************************************)
(* Reference semantics the claims are stated against.                      *)
(***************************************************************************)
Reverse(s) == [i \in 1..Len(s) |-> s[Len(s) + 1 - i]]

\* fk(..f2(f1(v))) for fs = <<f1, .., fk>>, a panic of an inner call being
\* the value of the whole expression.
RECURSIVE Nest(_, _)
Nest(fs, v) ==
    IF fs = <<>> THEN Ok(v)
    ELSE LET inner == Nest(Front(fs), v)
         IN  IF inner.ok THEN CallStage(Last(fs), inner.val) ELSE inner

Finished == ev.pc \in {"returned", "panicked"}

Outcome == IF ev.pc = "returned" THEN Ok(ev.cur) ELSE Panic(ev.err)

\* The position in fs of the first stage that panics on input v, 0 if none.
FailAt(fs, v) ==
    LET bad == {i \in 1..Len(fs) : ~Nest(SubSeq(fs, 1, i), v).ok}
    IN  IF bad = {} THEN 0 ELSE CHOOSE i \in bad : \A j \in bad : i <= j

\* C1: pipe!(f1, .., fk), k >= 1, expands to a closure, and a finished call
\* of it on v has the outcome of fk(..f2(f1(v))): the first listed
\* transformer is applied first, the last listed one last.
C1_PipeLeftToRight ==
    (kind = "pipe" /\ Len(args) >= 1) =>
        /\ pl.st = "ok"
        /\ Finished => Outcome = Nest(args, ev.v)

\* A pipe! of several transformers, whose order matters for this input, has
\* returned.
C1_Witness ==
    /\ kind = "pipe"
    /\ Len(args) >= 2
    /\ ev.pc = "returned"
    /\ Nest(Reverse(args), ev.v) # Ok(ev.cur)

\* C2: compose!(f1, .., fk), for every k >= 1, expands to the closure of
\* pipe!(fk, .., f1), and a finished call of it on v has the outcome of
\* f1(f2(..fk(v))).
C2_ComposeIsReversedPipe ==
    (kind = "compose" /\ Len(args) >= 1) =>
        /\ pl.st = "ok"
        /\ pl.body = pipe(Reverse(args)).body
        /\ Finished => Outcome = Nest(Reverse(args), ev.v)

\* The same for lists of two or more transformers.
ComposeOfTwoOrMore ==
    (kind = "compose" /\ Len(args) >= 2) =>
        /\ pl.st = "ok"
        /\ pl.body = pipe(Reverse(args)).body
        /\ Finished => Outcome = Nest(Reverse(args), ev.v)

\* C3: pipe!() and compose!() with no transformer fail to expand: no
\* closure exists, so none is ever called, and every closure that exists
\* was built from a non-empty list.
C3_EmptyListRejected ==
    /\ (kind # "none" /\ args = <<>>) =>
          (pl.st = "error" /\ ev.pc = "idle" /\ hist = {})
    /\ pl.st = "ok" => Len(args) >= 1

\* pipe!() was written and was rejected.
C3_Witness == kind = "pipe" /\ args = <<>> /\ pl.st = "error"

\* C9: when a stage of the pipeline panics, the call of the pipeline ends
\* with that stage's panic; the stages up to and including it were each
\* called once and those after it were not called.  The pipeline adds no
\* failure of its own and calls no stage twice.
C9_FailurePropagates ==
    /\ ev.pc # "idle" => \A j \in 1..Len(ev.invoked) : ev.invoked[j] <= 1
    /\ Finished =>
          LET i == FailAt(pl.body, ev.v)
          IN  IF i = 0 THEN ev.pc = "returned"
              ELSE /\ ev.pc = "panicked"
                   /\ ev.err =
                        CallStage(pl.body[i],
                                  Nest(SubSeq(pl.body, 1, i - 1), ev.v).val).err
                   /\ ev.invoked =
                        [j \in 1..Len(pl.body) |-> IF j <= i THEN 1 ELSE 0]

\* A stage in the middle of a pipeline has panicked.
C9_Witness ==
    /\ ev.pc = "panicked"
    /\ ev.idx >= 1
    /\ ev.idx + 1 < Len(pl.body)

BaseOp(form, g) ==
    CASE form = "map" -> map(g.f, g.it)
      [] form = "filter" -> filter(g.f, g.it)
      [] form = "filter_not" -> filter_not(g.f, g.it)
      [] form = "skip" -> skip(g.n, g.it)
      [] form = "take" -> take(g.n, g.it)
      [] form \in {"foldl_init_f", "foldl_init", "foldl_init_arrow"} ->
            foldl(g.init, g.f, g.it)
      [] form \in {"foldr_init_f", "foldr_init", "foldr_init_arrow"} ->
            foldr(g.init, g.f, g.it)

\* C6: once its remaining arguments are supplied, every curried form
\* yields what the base operation yields on the same arguments in the same
\* order: map!, filter!, filter_not!, skip!, take! and the three entry
\* points of foldl! and of foldr!.
C6_CurriedEqualsBase == cres.done => cres.val = BaseOp(cform, given)

\* foldl!(init =>) was given a combiner, then a sequence of two or more
\* elements.
C6_Witness ==
    /\ cres.done
    /\ cform = "foldl_init_arrow"
    /\ given.f = "sub"
    /\ given.init = 10
    /\ Len(given.it) >= 2

\* f(..f(f(init, e1), e2).., en)
RECURSIVE FoldlFormula(_, _, _)
FoldlFormula(init, f, s) ==
    IF s = <<>> THEN init
    ELSE Call2(f, FoldlFormula(init, f, Front(s)), Last(s))

\* f(e1, f(e2, ..f(en, init)..))
RECURSIVE FoldrFormula(_, _, _)
FoldrFormula(init, f, s) ==
    IF s = <<>> THEN init
    ELSE Call2(f, Head(s), FoldrFormula(init, f, Tail(s)))

LsHasMapper == lsq.form \in {"mapper;it", "mapper;it=>filterer"}

LsHasFilterer == lsq.form \in {"it=>filterer", "mapper;it=>filterer"}

\* C4: the full form returns the source filtered by p, then mapped with m:
\* m(x) for every x of the source with p(x), in source order, p being asked
\* about x; with no such x it returns the empty collection.
C4_FilterThenMap ==
    (lsq.form = "mapper;it=>filterer" /\ lsrun.pc = "done") =>
        /\ lsrun.ret = map(lsq.mapper, filter(lsq.filterer, lsq.it))
        /\ (\A k \in 1..Len(lsq.it) : ~CallPred(lsq.filterer, lsq.it[k])) =>
              lsrun.ret = <<>>

\* The full form has returned some, not all, of the source's elements,
\* mapped by a mapper that changes what the filter says.
C4_Witness ==
    /\ lsq.form = "mapper;it=>filterer"
    /\ lsrun.pc = "done"
    /\ lsq.mapper = "inc"
    /\ lsq.filterer = "even"
    /\ Len(lsrun.ret) >= 1
    /\ Len(lsrun.ret) < Len(lsq.it)

\* C5: every form runs the loop of the full form, with the identity for a
\* missing mapper and the always-true predicate for a missing filter; the
\* elements are taken from the source in order, each once, its predicate
\* called once and its mapper once if it passed and not at all otherwise.
C5_OneFusedTraversal ==
    lsq.form # "none" =>
        /\ lsx = ls_full(IF LsHasMapper THEN lsq.mapper ELSE "id", lsq.it,
                         IF LsHasFilterer THEN lsq.filterer ELSE "true")
        /\ \A k \in 1..Len(lsq.it) :
              lscnt[k] =
                IF k <= lsrun.pos
                THEN [ext |-> 1, pred |-> 1,
                      map |-> IF CallPred(lsx.filterer, lsq.it[k])
                              THEN 1 ELSE 0]
                ELSE NoCount
        /\ lsrun.pc = "done" =>
              /\ lsrun.pos = Len(lsq.it)
              /\ lsrun.ret = map(lsx.mapper, filter(lsx.filterer, lsq.it))

\* The filter-only form has finished a source of which it dropped elements.
C5_Witness ==
    /\ lsq.form = "it=>filterer"
    /\ lsrun.pc = "done"
    /\ Len(lsq.it) >= 2
    /\ Len(lsrun.ret) >= 1
    /\ Len(lsrun.ret) < Len(lsq.it)

BinOp(op, a, b) == IF op = "sum" THEN Plus(a, b) ELSE Times(a, b)

\* ((x1 op x2) op x3) op ..: acc holds the operands combined so far.
RECURSIVE LeftNested(_, _, _)
LeftNested(op, acc, rest) ==
    IF rest = <<>> THEN acc
    ELSE LeftNested(op, BinOp(op, acc, Lit(Head(rest))), Tail(rest))

\* x1 op (x2 op (x3 op ..)): acc holds the operands to the right of front.
RECURSIVE RightNested(_, _, _)
RightNested(op, front, acc) ==
    IF front = <<>> THEN acc
    ELSE RightNested(op, Front(front), BinOp(op, Lit(Last(front)), acc))

\* The sum or product of the operands over the unbounded integers.
RECURSIVE Exact(_, _)
Exact(op, xs) ==
    IF Len(xs) = 1 THEN xs[1]
    ELSE IF op = "sum" THEN Exact(op, Front(xs)) + Last(xs)
    ELSE Exact(op, Front(xs)) * Last(xs)

\* C8 as stated: the list form combines its operands left-associatively,
\* ((a + b) + c) + .., and overflows exactly when that evaluation does.
C8_LeftAssociative ==
    sres.st = "ok" =>
        LET l == LeftNested(sq.op, Lit(Head(sq.xs)), Tail(sq.xs))
        IN  sres.ovf = l.ovf /\ sres.val = l.val

\* C8, amended: the list form combines its operands right-associatively,
\* a + (b + (c + ..)) (a * (b * (c * ..)) for product!), and overflows
\* exactly when that evaluation does; a single operand is returned
\* unchanged, and where no operation overflows the value is the exact sum
\* (product) of the operands.
C8_RightAssociative ==
    sres.st = "ok" =>
        LET r == RightNested(sq.op, Front(sq.xs), Lit(Last(sq.xs)))
        IN  /\ sres.ovf = r.ovf
            /\ sres.val = r.val
            /\ ~sres.ovf => sres.val = Exact(sq.op, sq.xs)
            /\ Len(sq.xs) = 1 => (sres.val = sq.xs[1] /\ ~sres.ovf)

\* sum! of three operands has overflowed where the left-to-right sum of
\* the same operands does not.
C8_Witness ==
    /\ sq.op = "sum"
    /\ Len(sq.xs) = 3
    /\ sres.st = "ok"
    /\ sres.ovf
    /\ ~LeftNested("sum", Lit(Head(sq.xs)), Tail(sq.xs)).ovf

====
